---- MODULE Spec2Model ----
(***************************************************************************)
(* The rocketpool exporter of exporter/rocketpool.go: the entity caches    *)
(* (MinipoolsByAddress, NodesByAddress, ProposalsByID), the three          *)
(* synchronizers run by Update, the batched upserts run by Save and the    *)
(* Run loop that drives them.                                              *)
(*                                                                         *)
(* The specifications share every action:                                  *)
(*   Spec       the startup path rocketpoolExporter ->                     *)
(*              NewRocketpoolExporter -> Run, with the three synchronizers *)
(*              of one cycle interleaved step by step;                     *)
(*   SpecLive   Spec with progress;                                        *)
(*   SpecClock  the startup path with the ticker and the clock followed;   *)
(*   SpecAPI    a caller of the exported methods (InitX, UpdateX, SaveX)   *)
(*              of one entity kind, called one after the other;            *)
(*   SpecDrift  SpecAPI while the chain reports other values than stored;  *)
(*   SpecGrowth a caller of UpdateProposals / SaveProposals while the      *)
(*              number of proposals grows.                                 *)
(*                                                                         *)
(* The Chain Read API is the environment: every read either fails or       *)
(* returns a value of a small domain.  The cache maps hold pointers in the *)
(* source; an object is reachable through one key only, except the objects *)
(* seeded by Init, which are never written again, so the maps are modelled *)
(* as key -> record.                                                       *)
(***************************************************************************)
EXTENDS Integers, Sequences, FiniteSets, TLC

\* ---------------------------------------------------------------- bounds
\* Largest proposal count the chain reports to a caller of the exported methods.
MaxProposals == 2
\* Largest proposal count the chain reports under Run.
RunMaxProposals == 1
\* Largest batch size of the scaled persistence runs of SpecAPI.
MaxBatch == 2
\* Most rows durable storage holds per kind when the process starts.
MaxStoredRows == 2
\* How many times Run sleeps before a retry while time is followed.
MaxSleeps == 2

\* ------------------------------------------------------ program constants
batchSize == 1000
\* rp.UpdateInterval, the period of Run's ticker, and the delay before a
\* retry, in seconds.
UpdateInterval == 60
RetryDelay == 2

\* ------------------------------------------------------------- domains
nil == "nil"
\* 20-byte addresses the chain can list (minipools and nodes alike).
Addrs == {"a1", "a2"}
\* The addresses the chain lists under Run, where the three synchronizers of a
\* cycle are interleaved.
RunAddrs == {"a1"}
\* What the chain answers under Run for a node's stake and a proposal's state
\* (the minipool status keeps both its values there).
RunRPLStakeVals == {10}
RunProposalStateVals == {0}
ClockProposalCounts == {1}
GrowthCounts == {3, 5}
\* rp.API.RocketStorageContract.Address, the scope of every row written.
StorageAddress == "storage"
Kinds == {"minipools", "nodes", "proposals"}

\* What the chain may answer to the reads of NewRocketpoolMinipool.
PubkeyVals == {"pk1"}
NodeAddressVals == {"n1"}
NodeFeeVals == {"fee1", "fee2"}
RunNodeFeeVals == {"fee1"}
\* rpTypes.MinipoolDeposit and rpTypes.MinipoolStatus values (enum ordinals).
DepositTypeVals == {1}
MinipoolStatusVals == {0, 2}
StatusTimeVals == {100}
\* What the chain may answer to the reads of NewRocketpoolNode / Update.
TimezoneVals == {"UTC", "CET"}
ClockTimezoneVals == {"UTC"}
RPLStakeVals == {10, 20}
MinRPLStakeVals == {5}
MaxRPLStakeVals == {30}
\* What the chain may answer for the mutable part of a proposal.
ProposalStateVals == {0, 1}
VotesForVals == {0}

\* ------------------------------------------------------- Go conversions
\* fmt.Sprintf("%x", b): lowercase hex digits, no prefix.
SprintfX(addr) == <<"hex", addr>>
\* common.Address.Hex(): "0x" followed by the EIP-55 mixed-case digits.
Hex(addr) == <<"0x", addr>>
\* rpTypes.MinipoolStatus.String()
MinipoolStatusString(s) ==
    CASE s = 0 -> "Initialized"
      [] s = 1 -> "Prelaunch"
      [] s = 2 -> "Staking"
      [] s = 3 -> "Withdrawable"
      [] s = 4 -> "Dissolved"
      [] OTHER -> ""
\* rpTypes.MinipoolDeposit.String()
MinipoolDepositString(d) ==
    CASE d = 0 -> "None"
      [] d = 1 -> "Full"
      [] d = 2 -> "Half"
      [] d = 3 -> "Empty"
      [] OTHER -> ""
\* rpTypes.ProposalState.String()
ProposalStateString(s) ==
    CASE s = 0 -> "Pending"
      [] s = 1 -> "Active"
      [] s = 2 -> "Cancelled"
      [] OTHER -> ""
\* A nil *big.Int (the stakes are non-negative).
NilBigInt == 0 - 1
\* (*big.Int).String(): the decimal digits.
BigIntString(n) == <<"dec", n>>
\* time.Unix(sec, 0)
TimeUnix(sec) == <<"unix", sec>>

\* ------------------------------------------------------------ Go maps
\* Mutant: the assignment starts a new map that holds the one entry.
MapPut_NewMap(m, k, v) == [x \in {k} |-> v]

\* m[k] = v
MapPut(m, k, v) == [x \in (DOMAIN m) \cup {k} |-> IF x = k THEN v ELSE m[x]]
EmptyMap == [x \in {} |-> nil]
MapValues(m) == {m[k] : k \in DOMAIN m}

\* Sequences without repetition over a set (the orders a list or a map
\* iteration can come in).
RECURSIVE Orders(_)
Orders(S) ==
    IF S = {} THEN {<<>>}
    ELSE UNION {{<<x>> \o t : t \in Orders(S \ {x})} : x \in S}
ListsOver(S) == UNION {Orders(T) : T \in SUBSET S}

Min2(a, b) == IF a < b THEN a ELSE b

\* --------------------------------------------------------- chain reads
\* A read of the Chain Read API: err = nil and a value, or an error and the
\* zero value the binding returns with it.
Ok(v) == [err |-> nil, v |-> v]
Fail(e, zero) == [err |-> e, v |-> zero]
Reads(name, vals, zero) == {Ok(v) : v \in vals} \cup {Fail(name, zero)}

\* dao.GetProposalDetails(rp, pid, nil)
ProposalDetailsOf(pid, states) ==
    {[ID |-> pid, DAO |-> "rocketDAONodeTrustedProposals", ProposerAddress |-> "p1",
      Message |-> "msg", CreatedTime |-> 1, StartTime |-> 2, EndTime |-> 3,
      ExpiryTime |-> 4, VotesRequired |-> 2, VotesFor |-> vf, VotesAgainst |-> 0,
      MemberVoted |-> FALSE, MemberSupported |-> FALSE, IsCancelled |-> FALSE,
      IsExecuted |-> FALSE, Payload |-> "payload", State |-> st] :
        vf \in VotesForVals, st \in states}
ZeroProposalDetails ==
    [ID |-> 0, DAO |-> "", ProposerAddress |-> "", Message |-> "", CreatedTime |-> 0,
     StartTime |-> 0, EndTime |-> 0, ExpiryTime |-> 0, VotesRequired |-> 0,
     VotesFor |-> 0, VotesAgainst |-> 0, MemberVoted |-> FALSE,
     MemberSupported |-> FALSE, IsCancelled |-> FALSE, IsExecuted |-> FALSE,
     Payload |-> "", State |-> 0]

\* ------------------------------------------------------------ entities
\* Mutant: the literal takes Address from the node address read.
RocketpoolMinipool_AddressFromNode(addr, pubk, nodeAddr, nodeFee, depositType) ==
    [Address |-> nodeAddr, Pubkey |-> pubk, NodeAddress |-> nodeAddr, NodeFee |-> nodeFee,
     DepositType |-> MinipoolDepositString(depositType), Status |-> "", StatusTime |-> 0]

\* The struct literal of NewRocketpoolMinipool: Status and StatusTime are
\* still the zero values.
RocketpoolMinipool(addr, pubk, nodeAddr, nodeFee, depositType) ==
    [Address |-> addr, Pubkey |-> pubk, NodeAddress |-> nodeAddr, NodeFee |-> nodeFee,
     DepositType |-> MinipoolDepositString(depositType), Status |-> "", StatusTime |-> 0]

\* Mutant: the status read is assigned to DepositType as well.
RocketpoolMinipool_Update_WritesDepositType(this, status, statusTime, err) ==
    IF err # nil
    THEN [this |-> this, err |-> err]
    ELSE [this |-> [this EXCEPT !.DepositType = MinipoolStatusString(status),
                                !.Status = MinipoolStatusString(status),
                                !.StatusTime = statusTime],
          err |-> nil]

\* Mutant: Status is assigned before the group's error is looked at.
RocketpoolMinipool_Update_AssignBeforeCheck(this, status, statusTime, err) ==
    IF err # nil
    THEN [this |-> [this EXCEPT !.Status = MinipoolStatusString(status)], err |-> err]
    ELSE [this |-> [this EXCEPT !.Status = MinipoolStatusString(status),
                                !.StatusTime = statusTime],
          err |-> nil]

\* RocketpoolMinipool.Update after wg.Wait(): err is the group's error,
\* status and statusTime the variables the two goroutines assigned.
RocketpoolMinipool_Update(this, status, statusTime, err) ==
    IF err # nil
    THEN [this |-> this, err |-> err]
    ELSE [this |-> [this EXCEPT !.Status = MinipoolStatusString(status),
                                !.StatusTime = statusTime],
          err |-> nil]

\* The struct literal of NewRocketpoolNode followed by rpn.TimezoneLocation = tl.
RocketpoolNode(addr, tl) ==
    [Address |-> addr, TimezoneLocation |-> tl, RPLStake |-> NilBigInt,
     MinRPLStake |-> NilBigInt, MaxRPLStake |-> NilBigInt]

\* Mutant: each field is assigned as soon as its read has succeeded.
RocketpoolNode_Update_Partial(this, stake, minStake, maxStake) ==
    IF stake.err # nil THEN [this |-> this, err |-> stake.err]
    ELSE IF minStake.err # nil
         THEN [this |-> [this EXCEPT !.RPLStake = stake.v], err |-> minStake.err]
    ELSE IF maxStake.err # nil
         THEN [this |-> [this EXCEPT !.RPLStake = stake.v, !.MinRPLStake = minStake.v],
               err |-> maxStake.err]
    ELSE [this |-> [this EXCEPT !.RPLStake = stake.v, !.MinRPLStake = minStake.v,
                                !.MaxRPLStake = maxStake.v],
          err |-> nil]

\* RocketpoolNode.Update: three reads one after the other, the first failure
\* returns; the fields are assigned after the last read.
RocketpoolNode_Update(this, stake, minStake, maxStake) ==
    IF stake.err # nil THEN [this |-> this, err |-> stake.err]
    ELSE IF minStake.err # nil THEN [this |-> this, err |-> minStake.err]
    ELSE IF maxStake.err # nil THEN [this |-> this, err |-> maxStake.err]
    ELSE [this |-> [this EXCEPT !.RPLStake = stake.v, !.MinRPLStake = minStake.v,
                                !.MaxRPLStake = maxStake.v],
          err |-> nil]

\* NewRocketpoolNode: the timezone read, then Update; nil on any error.
NewRocketpoolNode(addr, tl, stake, minStake, maxStake) ==
    IF tl.err # nil THEN [this |-> nil, err |-> tl.err]
    ELSE LET r == RocketpoolNode_Update(RocketpoolNode(addr, tl.v), stake, minStake, maxStake)
         IN  IF r.err # nil THEN [this |-> nil, err |-> r.err] ELSE r

\* &RocketpoolProposal{ID: pid}
RocketpoolProposal(pid) ==
    [ID |-> pid, DAO |-> "", ProposerAddress |-> "", Message |-> "",
     CreatedTime |-> 0, StartTime |-> 0, EndTime |-> 0, ExpiryTime |-> 0,
     VotesRequired |-> 0, VotesFor |-> 0, VotesAgainst |-> 0, MemberVoted |-> FALSE,
     MemberSupported |-> FALSE, IsCancelled |-> FALSE, IsExecuted |-> FALSE,
     Payload |-> "", State |-> ""]

\* RocketpoolProposal.Update: one read, then every field is assigned.
RocketpoolProposal_Update(this, pd) ==
    IF pd.err # nil THEN [this |-> this, err |-> pd.err]
    ELSE [this |-> [ID |-> pd.v.ID, DAO |-> pd.v.DAO,
                    ProposerAddress |-> pd.v.ProposerAddress, Message |-> pd.v.Message,
                    CreatedTime |-> TimeUnix(pd.v.CreatedTime),
                    StartTime |-> TimeUnix(pd.v.StartTime),
                    EndTime |-> TimeUnix(pd.v.EndTime),
                    ExpiryTime |-> TimeUnix(pd.v.ExpiryTime),
                    VotesRequired |-> pd.v.VotesRequired, VotesFor |-> pd.v.VotesFor,
                    VotesAgainst |-> pd.v.VotesAgainst, MemberVoted |-> pd.v.MemberVoted,
                    MemberSupported |-> pd.v.MemberSupported,
                    IsCancelled |-> pd.v.IsCancelled, IsExecuted |-> pd.v.IsExecuted,
                    Payload |-> pd.v.Payload, State |-> ProposalStateString(pd.v.State)],
          err |-> nil]

\* NewRocketpoolProposal: nil on error.
NewRocketpoolProposal(pid, pd) ==
    LET r == RocketpoolProposal_Update(RocketpoolProposal(pid), pd)
    IN  IF r.err # nil THEN [this |-> nil, err |-> r.err] ELSE r

\* ------------------------------------------------------ durable storage
\* A table is a function from primary key (rocketpool_storage_address, address
\* or id) to row; a row holds every column of the insert statement.
MinipoolRow(d) ==
    [rocketpool_storage_address |-> StorageAddress, address |-> d.Address,
     pubkey |-> d.Pubkey, status |-> d.Status, status_time |-> d.StatusTime,
     node_address |-> d.NodeAddress, node_fee |-> d.NodeFee,
     deposit_type |-> d.DepositType]
NodeRow(d) ==
    [rocketpool_storage_address |-> StorageAddress, address |-> d.Address,
     timezone_location |-> d.TimezoneLocation, rpl_stake |-> BigIntString(d.RPLStake),
     min_rpl_stake |-> BigIntString(d.MinRPLStake),
     max_rpl_stake |-> BigIntString(d.MaxRPLStake)]
ProposalRow(d) ==
    [rocketpool_storage_address |-> StorageAddress, id |-> d.ID, dao |-> d.DAO,
     proposer_address |-> d.ProposerAddress, message |-> d.Message,
     created_time |-> d.CreatedTime, start_time |-> d.StartTime,
     end_time |-> d.EndTime, expiry_time |-> d.ExpiryTime,
     votes_required |-> d.VotesRequired, votes_for |-> d.VotesFor,
     votes_against |-> d.VotesAgainst, member_voted |-> d.MemberVoted,
     member_supported |-> d.MemberSupported, is_cancelled |-> d.IsCancelled,
     is_executed |-> d.IsExecuted, payload |-> d.Payload, state |-> d.State]
RowOf(kind, d) ==
    CASE kind = "minipools" -> MinipoolRow(d)
      [] kind = "nodes" -> NodeRow(d)
      [] OTHER -> ProposalRow(d)

\* The conflict target of the three statements.
PrimaryKey(kind, row) ==
    <<row.rocketpool_storage_address,
      IF kind = "proposals" THEN row.id ELSE row.address>>

\* The columns named after "do update set" in the three statements.
UpdateSetColumns(kind) ==
    CASE kind = "minipools" ->
            {"pubkey", "status", "status_time", "node_address", "node_fee", "deposit_type"}
      [] kind = "nodes" -> {"rpl_stake", "min_rpl_stake", "max_rpl_stake"}
      [] OTHER ->
            {"dao", "proposer_address", "message", "created_time", "start_time",
             "end_time", "expiry_time", "votes_required", "votes_for", "votes_against",
             "member_voted", "member_supported", "is_cancelled", "is_executed",
             "payload", "state"}

\* insert ... on conflict (...) do update set ... for one row.
UpsertRow(kind, table, row) ==
    LET k == PrimaryKey(kind, row)
    IN  IF k \in DOMAIN table
        THEN [table EXCEPT ![k] = [c \in DOMAIN row |->
                 IF c \in UpdateSetColumns(kind) THEN row[c] ELSE @[c]]]
        ELSE MapPut(table, k, row)

RECURSIVE UpsertRows(_, _, _)
UpsertRows(kind, table, rows) ==
    IF rows = <<>> THEN table
    ELSE UpsertRows(kind, UpsertRow(kind, table, Head(rows)), Tail(rows))

\* The columns of the three insert statements, in the order they are named.
Columns(kind) ==
    CASE kind = "minipools" ->
            <<"rocketpool_storage_address", "address", "pubkey", "status", "status_time",
              "node_address", "node_fee", "deposit_type">>
      [] kind = "nodes" ->
            <<"rocketpool_storage_address", "address", "timezone_location", "rpl_stake",
              "min_rpl_stake", "max_rpl_stake">>
      [] OTHER ->
            <<"rocketpool_storage_address", "id", "dao", "proposer_address", "message",
              "created_time", "start_time", "end_time", "expiry_time", "votes_required",
              "votes_for", "votes_against", "member_voted", "member_supported",
              "is_cancelled", "is_executed", "payload", "state">>

\* nArgs := 8 / 6 / 18
nArgs(kind) ==
    CASE kind = "minipools" -> 8
      [] kind = "nodes" -> 6
      [] OTHER -> 18

\* The numbers put into the "($%d,...,$%d)" template for row i of a batch
\* (i counts from 0):  valueStringsArgs[j] = i*nArgs + j + 1.
ValueStringsArgs(i, n) == [j \in 1..n |-> i * n + (j - 1) + 1]

\* The arguments appended to valueArgs for one entity: the scope, then the
\* fields in the order of the columns.
ValueArgsOf(kind, d) ==
    LET r == RowOf(kind, d)
    IN  [j \in 1..Len(Columns(kind)) |-> r[Columns(kind)[j]]]

\* The statement built from data[start:end]: one tuple of placeholders per row
\* and the flat list of arguments.
Statement(kind, slice) ==
    LET n == nArgs(kind)
        perRow == Len(Columns(kind))
    IN  [valueStrings |-> [i \in 1..Len(slice) |-> ValueStringsArgs(i - 1, n)],
         valueArgs |-> [p \in 1..(Len(slice) * perRow) |->
                          ValueArgsOf(kind, slice[((p - 1) \div perRow) + 1])
                                     [((p - 1) % perRow) + 1]]]

\* The database accepts a statement whose tuples have one placeholder per
\* column and whose placeholders all name an argument that was bound.
Executable(kind, stmt) ==
    \A i \in 1..Len(stmt.valueStrings) :
        /\ Len(stmt.valueStrings[i]) = Len(Columns(kind))
        /\ \A j \in 1..Len(stmt.valueStrings[i]) :
              stmt.valueStrings[i][j] \in 1..Len(stmt.valueArgs)

\* The rows the database inserts for a statement: column j of row i is the
\* argument its placeholder names.
BoundRows(kind, stmt) ==
    [i \in 1..Len(stmt.valueStrings) |->
        [c \in {Columns(kind)[j] : j \in 1..Len(Columns(kind))} |->
            stmt.valueArgs[stmt.valueStrings[i]
                              [CHOOSE j \in 1..Len(Columns(kind)) : Columns(kind)[j] = c]]]]

\* One multi-row statement may not name the same conflict key twice: the
\* database rejects it ("command cannot affect row a second time").
AffectsRowTwice(kind, rows) ==
    \E i, j \in 1..Len(rows) : i # j /\ PrimaryKey(kind, rows[i]) = PrimaryKey(kind, rows[j])

\* sqlx's scan of one row into the struct of its kind (select *).
MinipoolOfRow(r) ==
    [Address |-> r.address, Pubkey |-> r.pubkey, NodeAddress |-> r.node_address,
     NodeFee |-> r.node_fee, DepositType |-> r.deposit_type, Status |-> r.status,
     StatusTime |-> r.status_time]
NodeOfRow(r) ==
    [Address |-> r.address, TimezoneLocation |-> r.timezone_location,
     RPLStake |-> r.rpl_stake[2], MinRPLStake |-> r.min_rpl_stake[2],
     MaxRPLStake |-> r.max_rpl_stake[2]]
ProposalOfRow(r) ==
    [ID |-> r.id, DAO |-> r.dao, ProposerAddress |-> r.proposer_address,
     Message |-> r.message, CreatedTime |-> r.created_time, StartTime |-> r.start_time,
     EndTime |-> r.end_time, ExpiryTime |-> r.expiry_time,
     VotesRequired |-> r.votes_required, VotesFor |-> r.votes_for,
     VotesAgainst |-> r.votes_against, MemberVoted |-> r.member_voted,
     MemberSupported |-> r.member_supported, IsCancelled |-> r.is_cancelled,
     IsExecuted |-> r.is_executed, Payload |-> r.payload, State |-> r.state]
StructOfRow(kind, r) ==
    CASE kind = "minipools" -> MinipoolOfRow(r)
      [] kind = "nodes" -> NodeOfRow(r)
      [] OTHER -> ProposalOfRow(r)

\* The map key the Init functions file a loaded struct under.
InitKey(kind, d) == IF kind = "proposals" THEN d.ID ELSE SprintfX(d.Address)

\* for _, x := range dbRes { m[key(x)] = &x }.  With a loop variable per
\* iteration every entry points to its own row; with one variable for the whole
\* loop (Go before 1.22) every entry points to that variable, which holds the
\* last row when the loop ends.
InitRange(kind, m, dbRes, perIteration) ==
    LET idx(k) == {i \in 1..Len(dbRes) : InitKey(kind, dbRes[i]) = k}
        last(k) == CHOOSE i \in idx(k) : \A j \in idx(k) : j <= i
        keys == {InitKey(kind, dbRes[i]) : i \in 1..Len(dbRes)}
    IN  [k \in (DOMAIN m) \cup keys |->
            IF k \in keys
            THEN IF perIteration THEN dbRes[last(k)] ELSE dbRes[Len(dbRes)]
            ELSE m[k]]

\* Rows an earlier run of the exporter left in durable storage.
StoredMinipool(a) ==
    MinipoolRow([RocketpoolMinipool(a, "pk1", "n1", "fee1", 1)
                    EXCEPT !.Status = "Staking", !.StatusTime = 100])
StoredNode(a) ==
    NodeRow([Address |-> a, TimezoneLocation |-> "UTC", RPLStake |-> 10,
             MinRPLStake |-> 5, MaxRPLStake |-> 30])
StoredProposal(pid) ==
    ProposalRow(NewRocketpoolProposal(pid,
        Ok(CHOOSE pd \in ProposalDetailsOf(pid, ProposalStateVals) :
                pd.State = 0 /\ pd.VotesFor = 0)).this)
TableOf(kind, rows) == [k \in {PrimaryKey(kind, r) : r \in rows} |->
                           CHOOSE r \in rows : PrimaryKey(kind, r) = k]
StoredTables(kind, addrs, maxProposals) ==
    CASE kind = "minipools" ->
            {TableOf(kind, {StoredMinipool(a) : a \in S}) :
                S \in {T \in SUBSET addrs : Cardinality(T) <= MaxStoredRows}}
      [] kind = "nodes" ->
            {TableOf(kind, {StoredNode(a) : a \in S}) :
                S \in {T \in SUBSET addrs : Cardinality(T) <= MaxStoredRows}}
      [] OTHER ->
            {TableOf(kind, {StoredProposal(i) : i \in 1..n}) :
                n \in 0..Min2(MaxStoredRows, maxProposals)}

\* ---------------------------------------------------------------- state
VARIABLES
    pc,                  \* where the main goroutine is
    MinipoolsByAddress,  \* rp.MinipoolsByAddress
    NodesByAddress,      \* rp.NodesByAddress
    ProposalsByID,       \* rp.ProposalsByID
    db,                  \* durable storage: kind -> table
    um,                  \* the frame of UpdateMinipools
    mu,                  \* the frame of RocketpoolMinipool.Update and its errgroup
    un,                  \* the frame of UpdateNodes
    up,                  \* the frame of UpdateProposals
    wg,                  \* the errgroup of Update
    sv,                  \* the frame of SaveMinipools / SaveNodes / SaveProposals
    env,                 \* what surrounds the exporter: fixed when the process starts
    clk,                 \* the ticker t of Run and the time since t0
    chain,               \* what the chain holds that the exporter reads back later
    hist                 \* history of the current cycle (not program state)

caches == <<MinipoolsByAddress, NodesByAddress, ProposalsByID>>
tasks == <<um, mu, un, up>>
vars == <<pc, MinipoolsByAddress, NodesByAddress, ProposalsByID, db, um, mu, un, up,
          wg, sv, env, clk, chain, hist>>

CacheOf(kind) ==
    CASE kind = "minipools" -> MinipoolsByAddress
      [] kind = "nodes" -> NodesByAddress
      [] OTHER -> ProposalsByID

\* What identifies the entity a cache entry stands for.
Identity(kind, d) == IF kind = "proposals" THEN d.ID ELSE d.Address

IdleTask == [pc |-> "idle", list |-> <<>>, i |-> 0, err |-> nil]
IdleMinipoolUpdate ==
    [pc |-> "idle", new |-> FALSE, key |-> <<>>, this |-> [Address |-> ""], status |-> 0,
     statusTime |-> 0, getStatus |-> "idle", getStatusTime |-> "idle",
     statusErr |-> nil, statusTimeErr |-> nil, err |-> nil]
IdleSave ==
    [kind |-> nil, data |-> <<>>, n |-> 0, b |-> 0, tx |-> EmptyMap,
     before |-> EmptyMap, begun |-> 0, stmts |-> <<>>, sql |-> <<>>, committed |-> 0,
     err |-> nil]
NoHistory ==
    [firstCycle |-> TRUE, saves |-> {},
     wrote |-> [k \in Kinds |-> EmptyMap], keys0 |-> {}, ids0 |-> {}, again |-> FALSE,
     updated |-> FALSE]

\* time.NewTicker(rp.UpdateInterval): the first tick is one interval away, the
\* channel t.C (capacity 1) is empty.  sinceT0 is time.Since(t0), kept up to one
\* interval; sleeps counts the retries.
NewTicker == [untilTick |-> UpdateInterval, buffered |-> FALSE, sinceT0 |-> 0, sleeps |-> 0]

\* The clock after d more seconds: the ticker fires when its period ends and
\* puts a tick into t.C, which holds at most one (a tick that finds the channel
\* full is dropped).
After(c, d) ==
    LET fired == d >= c.untilTick
    IN  [c EXCEPT !.untilTick = IF fired
                                THEN UpdateInterval - ((d - c.untilTick) % UpdateInterval)
                                ELSE c.untilTick - d,
                  !.buffered = c.buffered \/ fired,
                  !.sinceT0 = Min2(UpdateInterval, c.sinceT0 + d)]

\* <-t.C: takes the tick the channel holds, or blocks until the ticker fires.
AwaitTick(c) ==
    IF c.buffered THEN [c EXCEPT !.buffered = FALSE]
    ELSE [After(c, c.untilTick) EXCEPT !.buffered = FALSE]

\* Mutant: the retry waits for the ticker instead of sleeping.
RetryWait_NextTick(c) == AwaitTick(c)

\* time.Sleep(time.Second * 2)
RetryWait(c) == After(c, RetryDelay)

\* d seconds pass (followed only where env.timed).
Elapse(d) == clk' = IF env.timed THEN After(clk, d) ELSE clk

InitCommon ==
    /\ MinipoolsByAddress = EmptyMap
    /\ NodesByAddress = EmptyMap
    /\ ProposalsByID = EmptyMap
    /\ um = IdleTask
    /\ mu = IdleMinipoolUpdate
    /\ un = IdleTask
    /\ up = IdleTask
    /\ wg = [err |-> nil]
    /\ sv = IdleSave
    /\ clk = NewTicker
    /\ chain = [proposalCount |-> 0]
    /\ hist = NoHistory

\* The process as started by rocketpoolExporter: durable storage holds what
\* earlier runs left, the batch size is the one of the source.
Init ==
    /\ InitCommon
    /\ pc = "rocketpoolExporter"
    /\ \E S \in SUBSET RunAddrs, n \in 0..RunMaxProposals :
          /\ Cardinality(S) <= MaxStoredRows
          /\ (n = 0) <=> (S = {})
          /\ db = [minipools |-> TableOf("minipools", {StoredMinipool(a) : a \in S}),
                   nodes |-> TableOf("nodes", {StoredNode(a) : a \in S}),
                   proposals |-> TableOf("proposals", {StoredProposal(i) : i \in 1..n})]
    /\ env = [mode |-> "run", focus |-> nil, addrs |-> RunAddrs,
              maxProposals |-> RunMaxProposals, batchSize |-> batchSize,
              perIteration |-> TRUE, stakeVals |-> RunRPLStakeVals,
              stateVals |-> RunProposalStateVals,
              tzVals |-> TimezoneVals, feeVals |-> RunNodeFeeVals,
              counts |-> 0..RunMaxProposals, timed |-> FALSE, durations |-> {0}]

\* Mutant: the group keeps the error of the task that failed last.
GroupDone_LastError(err) ==
    wg' = IF env.mode = "run" /\ err # nil THEN [err |-> err] ELSE wg

\* A task function returns err: its goroutine ends, and under Update's errgroup
\* the first non-nil error of the group is kept (errgroup.Group.Go).
GroupDone(err) ==
    wg' = IF env.mode = "run" /\ err # nil /\ wg.err = nil THEN [err |-> err] ELSE wg
\* Mutant: a failed turn of the loop is skipped and the loop goes on.
Returned_GoesOn(frame, err) ==
    IF err = nil \/ frame.pc = "start"
    THEN [frame EXCEPT !.pc = "done",
                       !.err = IF env.mode = "run" /\ err # nil THEN "failed" ELSE err]
    ELSE [frame EXCEPT !.pc = "loop", !.i = @ + 1,
                       !.err = IF env.mode = "run" THEN "failed" ELSE err]

\* The frame of a task function that has returned err.  Under Update the error
\* itself is the errgroup's; the frame keeps whether the task failed.
Returned(frame, err) ==
    [frame EXCEPT !.pc = "done",
                  !.err = IF env.mode = "run" /\ err # nil THEN "failed" ELSE err]
Wrote(kind, key, val) ==
    hist' = IF env.mode = "run" THEN [hist EXCEPT !.wrote[kind] = MapPut(@, key, val)]
            ELSE hist

\* ------------------------------------------------------ UpdateMinipools
\* minipool.GetMinipoolAddresses(rp.API, nil)
UpdateMinipools_GetMinipoolAddresses ==
    /\ um.pc = "start"
    /\ \/ /\ um' = Returned(um, "GetMinipoolAddresses")
          /\ GroupDone("GetMinipoolAddresses")
       \/ /\ \E l \in ListsOver(env.addrs) :
                um' = [um EXCEPT !.pc = "loop", !.list = l, !.i = 1]
          /\ UNCHANGED wg
    /\ UNCHANGED <<pc, caches, db, mu, un, up, sv, env, clk, chain, hist>>

\* The head of RocketpoolMinipool.Update: the contract binding, then the two
\* goroutines are started.
MinipoolUpdateStarted(key, this, new) ==
    [IdleMinipoolUpdate EXCEPT !.pc = "wait", !.new = new, !.key = key, !.this = this,
                               !.getStatus = "running", !.getStatusTime = "running"]

\* One turn of the loop over minipoolAddresses, up to the point where
\* RocketpoolMinipool.Update has started its two reads.
UpdateMinipools_Loop ==
    /\ um.pc = "loop"
    /\ IF um.i > Len(um.list)
       THEN /\ um' = Returned(um, nil)
            /\ GroupDone(nil)
            /\ UNCHANGED mu
       ELSE LET a == um.list[um.i]
                addrHex == Hex(a)
            IN  IF addrHex \in DOMAIN MinipoolsByAddress
                THEN \/ /\ um' = Returned(um, "NewMinipool")
                        /\ GroupDone("NewMinipool")
                        /\ UNCHANGED mu
                     \/ /\ mu' = MinipoolUpdateStarted(addrHex, MinipoolsByAddress[addrHex], FALSE)
                        /\ um' = [um EXCEPT !.pc = "Update"]
                        /\ UNCHANGED wg
                ELSE \/ /\ \E e \in {"GetMinipoolPubkey", "NewMinipool", "GetNodeAddress",
                                     "GetNodeFee", "GetDepositType"} :
                                /\ um' = Returned(um, e)
                                /\ GroupDone(e)
                        /\ UNCHANGED mu
                     \/ /\ \E pubk \in PubkeyVals, nodeAddr \in NodeAddressVals,
                              nodeFee \in env.feeVals, depositType \in DepositTypeVals :
                                mu' = MinipoolUpdateStarted(addrHex,
                                        RocketpoolMinipool(a, pubk, nodeAddr, nodeFee, depositType),
                                        TRUE)
                        /\ um' = [um EXCEPT !.pc = "Update"]
                        /\ UNCHANGED wg
    /\ UNCHANGED <<pc, caches, db, un, up, sv, env, clk, chain, hist>>

\* The goroutine  status, err = mp.GetStatus(nil)
Minipool_GetStatus ==
    /\ mu.getStatus = "running"
    /\ \E r \in Reads("GetStatus", MinipoolStatusVals, 0) :
          mu' = [mu EXCEPT !.getStatus = "done", !.status = r.v, !.statusErr = r.err,
                           !.err = IF r.err # nil /\ @ = nil THEN r.err ELSE @]
    /\ UNCHANGED <<pc, caches, db, um, un, up, wg, sv, env, clk, chain, hist>>

\* The goroutine  statusTime, err = mp.GetStatusTime(nil)
Minipool_GetStatusTime ==
    /\ mu.getStatusTime = "running"
    /\ \E r \in Reads("GetStatusTime", StatusTimeVals, 0) :
          mu' = [mu EXCEPT !.getStatusTime = "done", !.statusTime = r.v,
                           !.statusTimeErr = r.err,
                           !.err = IF r.err # nil /\ @ = nil THEN r.err ELSE @]
    /\ UNCHANGED <<pc, caches, db, um, un, up, wg, sv, env, clk, chain, hist>>

\* Mutant: Update goes on as soon as one of its two reads has returned.
Minipool_WaitReturns_AtFirstRead(m) == m.getStatus = "done" \/ m.getStatusTime = "done"

\* wg.Wait() of RocketpoolMinipool.Update returns once both goroutines have
\* ended.
Minipool_WaitReturns(m) == m.getStatus = "done" /\ m.getStatusTime = "done"

\* wg.Wait() of RocketpoolMinipool.Update returns, Update returns, and the
\* caller in UpdateMinipools goes on: an error is returned, a refreshed entry
\* has been written in place, a new one is stored under addrHex.
Minipool_Update_Wait ==
    /\ um.pc = "Update"
    /\ Minipool_WaitReturns(mu)
    /\ LET r == RocketpoolMinipool_Update(mu.this, mu.status, mu.statusTime, mu.err)
       IN  IF r.err # nil
           THEN /\ um' = Returned(um, r.err)
                /\ GroupDone(r.err)
                /\ MinipoolsByAddress' =
                       IF mu.new THEN MinipoolsByAddress
                       ELSE [MinipoolsByAddress EXCEPT ![mu.key] = r.this]
                /\ UNCHANGED hist
           ELSE /\ um' = [um EXCEPT !.pc = "loop", !.i = @ + 1]
                /\ MinipoolsByAddress' = MapPut(MinipoolsByAddress, mu.key, r.this)
                /\ Wrote("minipools", mu.key, r.this)
                /\ UNCHANGED wg
    /\ mu' = IdleMinipoolUpdate
    /\ UNCHANGED <<pc, NodesByAddress, ProposalsByID, db, un, up, sv, env, clk, chain>>

\* ---------------------------------------------------------- UpdateNodes
\* node.GetNodeAddresses(rp.API, nil)
UpdateNodes_GetNodeAddresses ==
    /\ un.pc = "start"
    /\ \/ /\ un' = Returned(un, "GetNodeAddresses")
          /\ GroupDone("GetNodeAddresses")
       \/ /\ \E l \in ListsOver(env.addrs) :
                un' = [un EXCEPT !.pc = "loop", !.list = l, !.i = 1]
          /\ UNCHANGED wg
    /\ UNCHANGED <<pc, caches, db, um, mu, up, sv, env, clk, chain, hist>>

\* The result of one turn of the loop over nodeAddresses for address a, given
\* what the chain answers: the entry to store under addrHex, or an error.
UpdateNodes_Turn(m, a, tl, stake, minStake, maxStake) ==
    IF Hex(a) \in DOMAIN m
    THEN RocketpoolNode_Update(m[Hex(a)], stake, minStake, maxStake)
    ELSE NewRocketpoolNode(a, tl, stake, minStake, maxStake)

\* One turn of the loop over nodeAddresses.
UpdateNodes_Loop ==
    /\ un.pc = "loop"
    /\ IF un.i > Len(un.list)
       THEN /\ un' = Returned(un, nil)
            /\ GroupDone(nil)
            /\ UNCHANGED <<NodesByAddress, hist>>
       ELSE LET a == un.list[un.i]
                addrHex == Hex(a)
                exists == addrHex \in DOMAIN NodesByAddress
            IN  \E tl \in Reads("GetNodeTimezoneLocation", env.tzVals, ""),
                   stake \in Reads("GetNodeRPLStake", env.stakeVals, NilBigInt),
                   minStake \in Reads("GetNodeMinimumRPLStake", MinRPLStakeVals, NilBigInt),
                   maxStake \in Reads("GetNodeMaximumRPLStake", MaxRPLStakeVals, NilBigInt) :
                   LET r == UpdateNodes_Turn(NodesByAddress, a, tl, stake, minStake, maxStake)
                   IN  IF r.err # nil
                       THEN /\ un' = Returned(un, r.err)
                            /\ GroupDone(r.err)
                            /\ NodesByAddress' =
                                   IF exists THEN [NodesByAddress EXCEPT ![addrHex] = r.this]
                                   ELSE NodesByAddress
                            /\ UNCHANGED hist
                       ELSE /\ un' = [un EXCEPT !.i = @ + 1]
                            /\ NodesByAddress' = MapPut(NodesByAddress, addrHex, r.this)
                            /\ Wrote("nodes", addrHex, r.this)
                            /\ UNCHANGED wg
    /\ UNCHANGED <<pc, MinipoolsByAddress, ProposalsByID, db, um, mu, up, sv, env, clk, chain>>

\* ------------------------------------------------------ UpdateProposals
\* rpDAO.GetProposalCount(rp.API, nil); the frame's list holds pc.  The count
\* of proposals on the chain grows and never shrinks.
UpdateProposals_GetProposalCount ==
    /\ up.pc = "start"
    /\ \/ /\ up' = Returned(up, "GetProposalCount")
          /\ GroupDone("GetProposalCount")
          /\ UNCHANGED chain
       \/ /\ \E n \in env.counts :
                /\ n >= chain.proposalCount
                /\ chain' = [chain EXCEPT !.proposalCount = n]
                /\ up' = [up EXCEPT !.pc = "loop", !.list = <<n>>, !.i = 0]
          /\ UNCHANGED wg
    /\ UNCHANGED <<pc, caches, db, um, mu, un, sv, env, clk, hist>>

\* Mutant: the loop asks for proposal i.
UpdateProposals_ID_FromZero(i) == i

\* The proposal the loop of UpdateProposals asks for in turn i:
\* NewRocketpoolProposal(rp.API, i+1).
UpdateProposals_ID(i) == i + 1

\* The key the loop of UpdateProposals stores proposal i+1 under.
UpdateProposals_Key(i) == i

\* One turn of  for i := uint64(0); i < pc; i++.
UpdateProposals_Loop ==
    /\ up.pc = "loop"
    /\ IF ~(up.i < up.list[1])
       THEN /\ up' = Returned(up, nil)
            /\ GroupDone(nil)
            /\ UNCHANGED <<ProposalsByID, hist>>
       ELSE \E pd \in {Ok(d) : d \in ProposalDetailsOf(UpdateProposals_ID(up.i),
                                                        env.stateVals)}
                       \cup {Fail("GetProposalDetails", ZeroProposalDetails)} :
               LET r == NewRocketpoolProposal(UpdateProposals_ID(up.i), pd)
               IN  IF r.err # nil
                   THEN /\ up' = Returned(up, r.err)
                        /\ GroupDone(r.err)
                        /\ UNCHANGED <<ProposalsByID, hist>>
                   ELSE /\ up' = [up EXCEPT !.i = @ + 1]
                        /\ ProposalsByID' =
                               MapPut(ProposalsByID, UpdateProposals_Key(up.i), r.this)
                        /\ Wrote("proposals", UpdateProposals_Key(up.i), r.this)
                        /\ UNCHANGED wg
    /\ UNCHANGED <<pc, MinipoolsByAddress, NodesByAddress, db, um, mu, un, sv, env, clk, chain>>

\* --------------------------------------------------------------- Update
\* Update: the three wg.Go calls.
StartTasks ==
    /\ um' = [IdleTask EXCEPT !.pc = "start"]
    /\ un' = [IdleTask EXCEPT !.pc = "start"]
    /\ up' = [IdleTask EXCEPT !.pc = "start"]
    /\ wg' = [err |-> nil]

\* Mutant: Run returns the error of Update.
Run_AfterUpdate_ReturnsError(err) == IF err # nil THEN "returned" ELSE "SaveMinipools"

\* Mutant: Run goes on to Save whatever Update returned.
Run_AfterUpdate_IgnoreError(err) == "SaveMinipools"

\* What Run does with the error Update returned: sleep and retry, or go on to
\* Save.
Run_AfterUpdate(err) == IF err # nil THEN "Sleep" ELSE "SaveMinipools"

\* ------------------------------------------------------------------ Run
\* rocketpoolExporter: dial, NewRocketpoolExporter, Run.  Either of the first
\* two may fail, which is fatal.
rocketpoolExporter ==
    /\ pc = "rocketpoolExporter"
    /\ \/ pc' = "fatal"
       \/ pc' = "Run"
    /\ UNCHANGED <<caches, db, tasks, wg, sv, env, clk, chain, hist>>

\* The top of Run's loop: t0 is taken and Update is called.
Run_Update ==
    /\ pc = "Run"
    /\ pc' = "Update"
    /\ StartTasks
    /\ hist' = [hist EXCEPT !.saves = {}, !.wrote = [k \in Kinds |-> EmptyMap]]
    /\ clk' = IF env.timed THEN [clk EXCEPT !.sinceT0 = 0] ELSE clk
    /\ UNCHANGED <<caches, db, mu, sv, env, chain>>

\* Mutant: Update returns as soon as one goroutine has returned an error.
Update_WaitReturns_AtFirstError ==
    \/ um.pc = "done" /\ un.pc = "done" /\ up.pc = "done"
    \/ wg.err # nil

\* Mutant: UpdateProposals is started outside the group, Wait covers two.
Update_WaitReturns_TwoOfThree == um.pc = "done" /\ un.pc = "done"

\* Mutant: Update returns as soon as one of the goroutines has ended.
Update_WaitReturns_Any == um.pc = "done" \/ un.pc = "done" \/ up.pc = "done"

\* wg.Wait() of Update returns once the three goroutines have ended.
Update_WaitReturns == um.pc = "done" /\ un.pc = "done" /\ up.pc = "done"

\* Update returns wg.Wait()'s error to Run, which branches on it.  The call
\* took some time d.
Update_Wait ==
    /\ pc = "Update"
    /\ Update_WaitReturns
    /\ pc' = Run_AfterUpdate(wg.err)
    /\ um' = IF um.pc = "done" THEN [IdleTask EXCEPT !.err = um.err] ELSE um
    /\ un' = IF un.pc = "done" THEN [IdleTask EXCEPT !.err = un.err] ELSE un
    /\ up' = IF up.pc = "done" THEN [IdleTask EXCEPT !.err = up.err] ELSE up
    /\ hist' = [hist EXCEPT !.firstCycle = FALSE,
                            !.wrote = IF wg.err = nil THEN NoHistory.wrote ELSE @]
    /\ \E d \in env.durations : Elapse(d)
    /\ UNCHANGED <<caches, db, mu, wg, sv, env, chain>>

\* time.Sleep(2 s); continue
Run_Sleep ==
    /\ pc = "Sleep"
    /\ env.timed => clk.sleeps < MaxSleeps
    /\ pc' = "Run"
    /\ sv' = IdleSave
    /\ clk' = IF env.timed THEN [RetryWait(clk) EXCEPT !.sleeps = @ + 1] ELSE clk
    /\ UNCHANGED <<caches, db, tasks, wg, env, chain, hist>>

\* <-t.C
Run_Tick ==
    /\ pc = "Tick"
    /\ pc' = "Run"
    /\ sv' = IdleSave
    /\ clk' = IF env.timed THEN AwaitTick(clk) ELSE clk
    /\ UNCHANGED <<caches, db, tasks, wg, env, chain, hist>>

\* ----------------------------------------------------------------- Save
SavePC(kind) ==
    CASE kind = "minipools" -> "SaveMinipools"
      [] kind = "nodes" -> "SaveNodes"
      [] OTHER -> "SaveProposals"

\* Mutant: Save calls the three SaveX whatever they return and reports no error.
AfterSave_IgnoresError(kind, err) ==
    IF env.mode = "api" THEN "api"
    ELSE CASE kind = "minipools" -> "SaveNodes"
           [] kind = "nodes" -> "SaveProposals"
           [] OTHER -> "Tick"

\* Where the main goroutine goes when SaveX returns err: Save goes on to the
\* next kind or returns to Run, which sleeps on an error and waits for the
\* tick otherwise; a direct caller gets the error back.
AfterSave(kind, err) ==
    IF env.mode = "api" THEN "api"
    ELSE IF err # nil THEN "Sleep"
    ELSE CASE kind = "minipools" -> "SaveNodes"
           [] kind = "nodes" -> "SaveProposals"
           [] OTHER -> "Tick"

\* Mutant: every batch runs to the end of data.
BatchEnd_ToTheEnd(b, len, size) == len

\* end of the batch that starts at b:  end = b + batchSize, cut to len(data).
BatchEnd(b, len, size) == IF len < b + size THEN len ELSE b + size

\* Mutant: every statement is committed on its own.
DurableAfterExec_Autocommit(committed, tx) == tx

\* What durable storage holds of a table while a statement of the open
\* transaction has been executed and nothing is committed yet: the committed
\* table.
DurableAfterExec(committed, tx) == committed

\* Mutant: SaveX has no check for the empty map.
SaveX_NothingToSave_NoCheck(cache) == FALSE

\* if len(rp.XByY) == 0 { return nil }
SaveX_NothingToSave(cache) == DOMAIN cache = {}

\* The head of SaveX: the empty check, the copy of the map's values into data
\* (in map iteration order) and db.DB.Beginx().  The time d the call takes is
\* counted here.
Save_Begin(kind) ==
    /\ pc = SavePC(kind)
    /\ hist' = IF env.mode = "run" THEN [hist EXCEPT !.saves = @ \cup {kind}] ELSE hist
    /\ IF SaveX_NothingToSave(CacheOf(kind))
       THEN /\ sv' = [IdleSave EXCEPT !.kind = kind, !.before = db[kind]]
            /\ pc' = AfterSave(kind, nil)
       ELSE \/ /\ sv' = [IdleSave EXCEPT !.kind = kind, !.before = db[kind],
                                         !.n = Cardinality(DOMAIN CacheOf(kind)),
                                         !.err = "Beginx"]
               /\ pc' = AfterSave(kind, "Beginx")
            \/ /\ \E keys \in Orders(DOMAIN CacheOf(kind)) :
                     sv' = [IdleSave EXCEPT !.kind = kind, !.before = db[kind],
                               !.data = [i \in 1..Len(keys) |-> CacheOf(kind)[keys[i]]],
                               !.n = Len(keys), !.tx = db[kind], !.begun = 1]
               /\ pc' = "Exec"
    /\ \E d \in env.durations : Elapse(d)
    /\ UNCHANGED <<caches, db, tasks, wg, env, chain>>

\* One turn of  for b := 0; b < len(data); b += batchSize: the statement is
\* built from data[start:end] and executed in the transaction.  On an error
\* SaveX returns and the deferred tx.Rollback() runs.
Save_Exec ==
    /\ pc = "Exec"
    /\ sv.b < Len(sv.data)
    /\ LET end == BatchEnd(sv.b, Len(sv.data), env.batchSize)
           stmt == Statement(sv.kind, [i \in 1..(end - sv.b) |-> sv.data[sv.b + i]])
           rows == BoundRows(sv.kind, stmt)
       IN  \/ /\ sv' = [sv EXCEPT !.err = "Exec", !.tx = EmptyMap, !.data = <<>>,
                                  !.sql = Append(@, stmt)]
              /\ pc' = AfterSave(sv.kind, "Exec")
              /\ UNCHANGED db
           \/ /\ Executable(sv.kind, stmt)
              /\ ~AffectsRowTwice(sv.kind, rows)
              /\ sv' = [sv EXCEPT !.tx = UpsertRows(sv.kind, @, rows),
                                  !.b = @ + env.batchSize,
                                  !.stmts = Append(@, rows),
                                  !.sql = Append(@, stmt)]
              /\ db' = [db EXCEPT ![sv.kind] = DurableAfterExec(@, sv'.tx)]
              /\ UNCHANGED pc
    /\ UNCHANGED <<caches, tasks, wg, env, clk, chain, hist>>

\* return tx.Commit()
Save_Commit ==
    /\ pc = "Exec"
    /\ ~(sv.b < Len(sv.data))
    /\ \/ /\ sv' = [sv EXCEPT !.err = "Commit", !.tx = EmptyMap, !.data = <<>>]
          /\ pc' = AfterSave(sv.kind, "Commit")
          /\ UNCHANGED db
       \/ /\ db' = [db EXCEPT ![sv.kind] = sv.tx]
          /\ sv' = [sv EXCEPT !.committed = 1, !.tx = EmptyMap, !.data = <<>>]
          /\ pc' = AfterSave(sv.kind, nil)
    /\ UNCHANGED <<caches, tasks, wg, env, clk, chain, hist>>

SaveMinipools == Save_Begin("minipools")
SaveNodes == Save_Begin("nodes")
SaveProposals == Save_Begin("proposals")

\* ------------------------------------------- calls of the exported methods
\* InitMinipools / InitNodes / InitProposals: the select fails, or every row of
\* the table is loaded, in the order the database returns them.
Init_Load(kind) ==
    \/ UNCHANGED caches
    \/ \E keys \in Orders(DOMAIN db[kind]) :
          LET dbRes == [i \in 1..Len(keys) |-> StructOfRow(kind, db[kind][keys[i]])]
              m == InitRange(kind, CacheOf(kind), dbRes, env.perIteration)
          IN  /\ MinipoolsByAddress' = IF kind = "minipools" THEN m ELSE MinipoolsByAddress
              /\ NodesByAddress' = IF kind = "nodes" THEN m ELSE NodesByAddress
              /\ ProposalsByID' = IF kind = "proposals" THEN m ELSE ProposalsByID

API_Init ==
    /\ pc = "api"
    /\ Init_Load(env.focus)
    /\ sv' = IdleSave
    /\ hist' = [hist EXCEPT !.again = FALSE, !.updated = FALSE]
    /\ UNCHANGED <<pc, db, tasks, wg, env, clk, chain>>

\* A call of UpdateMinipools / UpdateNodes / UpdateProposals.
API_Update ==
    /\ pc = "api"
    /\ pc' = "api.Update"
    /\ um' = IF env.focus = "minipools" THEN [IdleTask EXCEPT !.pc = "start"] ELSE um
    /\ un' = IF env.focus = "nodes" THEN [IdleTask EXCEPT !.pc = "start"] ELSE un
    /\ up' = IF env.focus = "proposals" THEN [IdleTask EXCEPT !.pc = "start"] ELSE up
    /\ sv' = IdleSave
    /\ hist' = [hist EXCEPT !.again = FALSE, !.updated = FALSE,
                            !.keys0 = DOMAIN CacheOf(env.focus),
                            !.ids0 = {Identity(env.focus, d) :
                                        d \in MapValues(CacheOf(env.focus))}]
    /\ UNCHANGED <<caches, db, mu, wg, env, clk, chain>>

TaskOf(kind) ==
    CASE kind = "minipools" -> um
      [] kind = "nodes" -> un
      [] OTHER -> up

\* The call returns; hist.updated: it returned nil.
API_UpdateReturn ==
    /\ pc = "api.Update"
    /\ TaskOf(env.focus).pc = "done"
    /\ pc' = "api"
    /\ um' = IdleTask
    /\ un' = IdleTask
    /\ up' = IdleTask
    /\ hist' = [hist EXCEPT !.keys0 = {}, !.ids0 = {},
                            !.updated = (TaskOf(env.focus).err = nil)]
    /\ UNCHANGED <<caches, db, mu, wg, sv, env, clk, chain>>

\* A call of SaveMinipools / SaveNodes / SaveProposals; hist.again: the call
\* before this one was a SaveX that returned nil.
API_Save ==
    /\ pc = "api"
    /\ pc' = SavePC(env.focus)
    /\ sv' = IdleSave
    /\ hist' = [hist EXCEPT !.again = (sv.kind # nil /\ sv.err = nil)]
    /\ UNCHANGED <<caches, db, tasks, wg, env, clk, chain>>

\* A caller of the exported methods of one kind; the batch size is scaled down
\* so that a cache of a few entries is written in more than one batch.  The
\* chain reports timezone tz and node fee fee; storage holds rows of an earlier
\* run.
InitCaller(tz, fee, pers) ==
    /\ InitCommon
    /\ pc = "api"
    /\ \E k \in Kinds, size \in 1..MaxBatch, per \in pers :
          /\ env = [mode |-> "api", focus |-> k, addrs |-> Addrs,
                    maxProposals |-> MaxProposals, batchSize |-> size,
                    perIteration |-> per, stakeVals |-> RPLStakeVals,
                    stateVals |-> ProposalStateVals,
                    tzVals |-> {tz}, feeVals |-> {fee},
                    counts |-> 0..MaxProposals, timed |-> FALSE, durations |-> {0}]
          /\ \E t \in StoredTables(k, Addrs, MaxProposals) :
                db = [x \in Kinds |-> IF x = k THEN t ELSE EmptyMap]

\* The chain reports what the stored rows hold.
InitAPI == InitCaller("UTC", "fee1", BOOLEAN)

\* The chain reports another timezone and another node fee than the stored rows
\* hold (the rows were written before the values on the chain changed, or by
\* another writer).
InitDrift == InitCaller("CET", "fee2", {TRUE})

\* ------------------------------------------------------- specifications
Synchronizers ==
    \/ UpdateMinipools_GetMinipoolAddresses
    \/ UpdateMinipools_Loop
    \/ Minipool_GetStatus
    \/ Minipool_GetStatusTime
    \/ Minipool_Update_Wait
    \/ UpdateNodes_GetNodeAddresses
    \/ UpdateNodes_Loop
    \/ UpdateProposals_GetProposalCount
    \/ UpdateProposals_Loop

Persistence ==
    \/ SaveMinipools
    \/ SaveNodes
    \/ SaveProposals
    \/ Save_Exec
    \/ Save_Commit

Next ==
    \/ rocketpoolExporter
    \/ Run_Update
    \/ Synchronizers
    \/ Update_Wait
    \/ Persistence
    \/ Run_Sleep
    \/ Run_Tick

Spec == Init /\ [][Next]_vars

NextAPI ==
    \/ API_Init
    \/ API_Update
    \/ Synchronizers
    \/ API_UpdateReturn
    \/ API_Save
    \/ Persistence

SpecAPI == InitAPI /\ [][NextAPI]_vars

SpecDrift == InitDrift /\ [][NextAPI]_vars

\* A fresh exporter on empty storage whose caller refreshes and saves the
\* proposals while the chain reports 3 and later 5 of them (as on the startup
\* path, the caches are not loaded from storage).
InitGrowth ==
    /\ InitCommon
    /\ pc = "api"
    /\ db = [k \in Kinds |-> EmptyMap]
    /\ \E size \in 1..MaxBatch :
          env = [mode |-> "api", focus |-> "proposals", addrs |-> Addrs,
                 maxProposals |-> MaxProposals, batchSize |-> size,
                 perIteration |-> TRUE, stakeVals |-> RPLStakeVals,
                 stateVals |-> RunProposalStateVals,
                 tzVals |-> {"UTC"}, feeVals |-> {"fee1"},
                 counts |-> GrowthCounts, timed |-> FALSE, durations |-> {0}]

NextGrowth ==
    \/ API_Update
    \/ UpdateProposals_GetProposalCount
    \/ UpdateProposals_Loop
    \/ API_UpdateReturn
    \/ API_Save
    \/ SaveProposals
    \/ Save_Exec
    \/ Save_Commit

SpecGrowth == InitGrowth /\ [][NextGrowth]_vars

\* Spec with progress: a goroutine that can take a step is scheduled, every
\* call of the chain and of the database returns, the sleep and the wait for
\* the tick end.
SpecLive == Init /\ [][Next]_vars /\ WF_vars(Next)

\* The process as started by rocketpoolExporter on empty storage, with time
\* followed: Update and SaveX return at once or after a whole interval.
InitClock ==
    /\ InitCommon
    /\ pc = "rocketpoolExporter"
    /\ db = [k \in Kinds |-> EmptyMap]
    /\ env = [mode |-> "run", focus |-> nil, addrs |-> RunAddrs,
              maxProposals |-> RunMaxProposals, batchSize |-> batchSize,
              perIteration |-> TRUE, stakeVals |-> RunRPLStakeVals,
              stateVals |-> RunProposalStateVals,
              tzVals |-> ClockTimezoneVals, feeVals |-> RunNodeFeeVals,
              counts |-> ClockProposalCounts, timed |-> TRUE,
              durations |-> {0, UpdateInterval}]

SpecClock == InitClock /\ [][Next]_vars

\* ================================================================ claims
ListSet(l) == {l[i] : i \in 1..Len(l)}
Ceil(n, b) == (n + b - 1) \div b
SaveInProgress == pc \in {"SaveMinipools", "SaveNodes", "SaveProposals", "Exec"}

\* C1: on the startup path, when the first Update begins every row that
\* durable storage holds for minipools, nodes and proposals has an entry in
\* the cache of its kind.
C1_CacheSeededBeforeFirstUpdate ==
    (pc = "Update" /\ hist.firstCycle /\ um.pc = "start" /\ un.pc = "start"
        /\ up.pc = "start")
    => \A kind \in Kinds : \A k \in DOMAIN db[kind] :
          \E d \in MapValues(CacheOf(kind)) : Identity(kind, d) = k[2]

\* C2: when UpdateMinipools (UpdateNodes) has returned nil on a cache that held
\* no identifier absent from the list, every listed address has its entry and
\* the identifiers of the cache are exactly those of the list.
C2_DiscoveryOf(kind, frame, cache) ==
    (env.focus = kind /\ pc = "api.Update" /\ frame.pc = "done" /\ frame.err = nil
        /\ hist.ids0 \subseteq ListSet(frame.list))
    => /\ \A a \in ListSet(frame.list) :
             Hex(a) \in DOMAIN cache /\ cache[Hex(a)].Address = a
       /\ {d.Address : d \in MapValues(cache)} = ListSet(frame.list)
C2_DiscoveryComplete ==
    /\ C2_DiscoveryOf("minipools", um, MinipoolsByAddress)
    /\ C2_DiscoveryOf("nodes", un, NodesByAddress)
C2_Witness ==
    /\ env.focus = "minipools" /\ pc = "api.Update" /\ um.pc = "done" /\ um.err = nil
    /\ Len(um.list) = 2
    /\ hist.ids0 = {um.list[2]}

\* C3: when UpdateProposals has returned nil after reading the count n, every
\* k in 1..n is a key of ProposalsByID and the entry under k is proposal k.
C3_ProposalDensity ==
    (pc = "api.Update" /\ up.pc = "done" /\ up.err = nil)
    => \A k \in 1..up.list[1] :
          k \in DOMAIN ProposalsByID /\ ProposalsByID[k].ID = k

\* C4: no entity is held by two cache entries: two keys of one cache never
\* hold the same address (the same proposal id).  Stated for builds in which
\* every seeded entry holds its own row.
C4_IdentityUnique ==
    env.perIteration =>
        \A kind \in Kinds : \A k1, k2 \in DOMAIN CacheOf(kind) :
            Identity(kind, CacheOf(kind)[k1]) = Identity(kind, CacheOf(kind)[k2])
            => k1 = k2

\* C5: no step of a refresh removes a key of the minipool or node cache or
\* changes the address or an immutable attribute of an entry (minipool: pubkey,
\* node address, fee, deposit type; node: timezone).
C5_IdentityStable ==
    [][pc = "api.Update" =>
        /\ \A k \in DOMAIN MinipoolsByAddress :
              /\ k \in DOMAIN MinipoolsByAddress'
              /\ MinipoolsByAddress'[k].Address = MinipoolsByAddress[k].Address
              /\ MinipoolsByAddress'[k].Pubkey = MinipoolsByAddress[k].Pubkey
              /\ MinipoolsByAddress'[k].NodeAddress = MinipoolsByAddress[k].NodeAddress
              /\ MinipoolsByAddress'[k].NodeFee = MinipoolsByAddress[k].NodeFee
              /\ MinipoolsByAddress'[k].DepositType = MinipoolsByAddress[k].DepositType
        /\ \A k \in DOMAIN NodesByAddress :
              /\ k \in DOMAIN NodesByAddress'
              /\ NodesByAddress'[k].Address = NodesByAddress[k].Address
              /\ NodesByAddress'[k].TimezoneLocation = NodesByAddress[k].TimezoneLocation
    ]_vars
\* An entry cached before the call has been refreshed.
C5_Witness ==
    /\ env.focus = "minipools" /\ pc = "api.Update" /\ um.pc = "loop" /\ um.i = 2
    /\ Hex(um.list[1]) \in hist.keys0
    /\ MinipoolsByAddress[Hex(um.list[1])].Status = "Staking"

\* C6: a turn of UpdateNodes or UpdateProposals that ends in an error leaves
\* every entry of the cache, the one being refreshed included, as it was.
C6_AllOrNothing ==
    [][/\ (un.pc = "loop" /\ un'.pc = "done" /\ un'.err # nil)
            => NodesByAddress' = NodesByAddress
       /\ (up.pc = "loop" /\ up'.pc = "done" /\ up'.err # nil)
            => ProposalsByID' = ProposalsByID
    ]_vars
\* The refresh of a node cached before the call failed on its last read, after
\* the first two had succeeded.
C6_Witness ==
    /\ env.focus = "nodes" /\ pc = "api.Update" /\ un.pc = "done"
    /\ un.err = "GetNodeMaximumRPLStake"
    /\ un.i >= 1 /\ un.i <= Len(un.list)
    /\ Hex(un.list[un.i]) \in hist.keys0

\* C7: RocketpoolMinipool.Update decides only when both reads have returned; if
\* either failed, an error is returned and Status and StatusTime of the cached
\* minipool are as before (a new minipool is not stored); if both succeeded,
\* both fields hold the values read.  While the reads run the cache is not
\* written.
C7_MinipoolJoin ==
    [][/\ (um.pc = "Update" /\ um'.pc = "Update")
            => MinipoolsByAddress' = MinipoolsByAddress
       /\ (um.pc = "Update" /\ um'.pc # "Update")
            => /\ mu.getStatus = "done" /\ mu.getStatusTime = "done"
               /\ IF mu.statusErr # nil \/ mu.statusTimeErr # nil
                  THEN /\ um'.pc = "done" /\ um'.err # nil
                       /\ DOMAIN MinipoolsByAddress' = DOMAIN MinipoolsByAddress
                       /\ ~mu.new =>
                            /\ MinipoolsByAddress'[mu.key].Status
                                 = MinipoolsByAddress[mu.key].Status
                            /\ MinipoolsByAddress'[mu.key].StatusTime
                                 = MinipoolsByAddress[mu.key].StatusTime
                  ELSE /\ um'.pc = "loop" /\ um'.err = nil
                       /\ mu.key \in DOMAIN MinipoolsByAddress'
                       /\ MinipoolsByAddress'[mu.key].Status
                            = MinipoolStatusString(mu.status)
                       /\ MinipoolsByAddress'[mu.key].StatusTime = mu.statusTime
    ]_vars
\* Both reads of a cached minipool have returned: the status read succeeded with
\* a status other than the cached one, the status-time read failed.
C7_Witness ==
    /\ um.pc = "Update" /\ ~mu.new
    /\ mu.getStatus = "done" /\ mu.getStatusTime = "done"
    /\ mu.statusErr = nil /\ mu.statusTimeErr # nil
    /\ MinipoolStatusString(mu.status) # MinipoolsByAddress[mu.key].Status

\* C8: in a cycle whose node synchronizer failed, no SaveX is called, and what
\* the minipool and proposal synchronizers wrote in that cycle is in their
\* caches.
C8_PartialFailureIsolation ==
    un.err # nil =>
        /\ hist.saves = {}
        /\ ~SaveInProgress
        /\ \A kind \in {"minipools", "proposals"} :
              \A k \in DOMAIN hist.wrote[kind] :
                  /\ k \in DOMAIN CacheOf(kind)
                  /\ CacheOf(kind)[k] = hist.wrote[kind][k]
C8_Witness ==
    /\ pc = "Sleep" /\ un.err # nil /\ um.err = nil /\ up.err = nil
    /\ DOMAIN hist.wrote["minipools"] # {}
    /\ DOMAIN hist.wrote["proposals"] # {}

\* C9 as claimed: a Save of N > 0 entities with batch size B begins ceil(N/B)
\* transactions, and when the statement of batch k fails the rows of batches
\* 1..k-1 are in durable storage.
C9_BatchesCommittedIndependently ==
    (pc = "api" /\ sv.kind # nil /\ sv.n > 0 /\ sv.err \in {nil, "Exec"})
    => /\ sv.err = nil => sv.begun = Ceil(sv.n, env.batchSize)
       /\ sv.err = "Exec" =>
            \A s \in 1..Len(sv.stmts) : \A i \in 1..Len(sv.stmts[s]) :
                LET r == sv.stmts[s][i]
                    k == PrimaryKey(sv.kind, r)
                IN  /\ k \in DOMAIN db[sv.kind]
                    /\ \A c \in UpdateSetColumns(sv.kind) : db[sv.kind][k][c] = r[c]

\* C9 as amended: a Save of N > 0 entities begins one transaction; it executes
\* one statement per batch of at most B rows, ceil(N/B) when all succeed, and
\* commits once after the last; until then, and for good when a statement or the
\* commit fails, durable storage holds what it held before the Save.
C9_OneTransactionPerSave ==
    /\ pc = "Exec" =>
          /\ sv.begun = 1 /\ sv.committed = 0
          /\ db[sv.kind] = sv.before
          /\ \A s \in 1..Len(sv.stmts) :
                Len(sv.stmts[s]) >= 1 /\ Len(sv.stmts[s]) <= env.batchSize
    /\ (pc = "api" /\ sv.kind # nil /\ sv.n > 0) =>
          /\ sv.begun <= 1
          /\ sv.err = nil =>
                /\ sv.begun = 1 /\ sv.committed = 1
                /\ Len(sv.stmts) = Ceil(sv.n, env.batchSize)
                /\ \A s \in 1..Len(sv.stmts) : \A i \in 1..Len(sv.stmts[s]) :
                      PrimaryKey(sv.kind, sv.stmts[s][i]) \in DOMAIN db[sv.kind]
          /\ sv.err # nil => sv.committed = 0 /\ db[sv.kind] = sv.before
\* The statement of the second or a later batch failed.
C9_Witness ==
    /\ pc = "api" /\ sv.err = "Exec" /\ Len(sv.stmts) >= 1
    /\ sv.n > env.batchSize
    /\ \E i \in 1..Len(sv.stmts[1]) :
          PrimaryKey(sv.kind, sv.stmts[1][i]) \notin DOMAIN sv.before

\* C10: while a SaveX is about to be called or running, and from then to the
\* end of the cycle, none of the three synchronizers (nor a minipool read) is
\* running and each of them has returned nil.
C10_SaveAfterRefresh ==
    (SaveInProgress \/ hist.saves # {}) =>
        /\ um.pc = "idle" /\ un.pc = "idle" /\ up.pc = "idle"
        /\ mu.getStatus # "running" /\ mu.getStatusTime # "running"
        /\ um.err = nil /\ un.err = nil /\ up.err = nil /\ wg.err = nil
C10_Witness ==
    /\ pc = "Exec" /\ sv.kind = "proposals"
    /\ hist.saves = Kinds

\* C11: outside Update no synchronizer goroutine (and no minipool read) of any
\* cycle is running: when Run sleeps after a failure, saves, waits for the tick
\* or is about to start the next cycle, every goroutine of the cycle before has
\* ended.
C11_OneCycleAtATime ==
    pc # "Update" =>
        /\ um.pc = "idle" /\ un.pc = "idle" /\ up.pc = "idle"
        /\ mu.pc = "idle" /\ mu.getStatus = "idle" /\ mu.getStatusTime = "idle"
\* The next cycle is about to start after a cycle in which the node
\* synchronizer failed and the minipool synchronizer did not.
C11_Witness ==
    /\ pc = "Run" /\ ~hist.firstCycle /\ wg.err # nil
    /\ un.err # nil /\ um.err = nil

\* C12: a step that changes the cache of a kind is a step of that kind's
\* synchronizer alone, taken inside Update, and a step of SaveX is taken only
\* while the synchronizer of its kind is not running and changes no synchronizer.
C12_WrittenBy(kind, frame) ==
    CacheOf(kind)' # CacheOf(kind) =>
        /\ pc = "Update" /\ pc' = "Update"
        /\ frame.pc \in {"loop", "Update"}
        /\ sv' = sv
        /\ \A other \in Kinds \ {kind} : CacheOf(other)' = CacheOf(other)
C12_NoConcurrentCacheAccess ==
    [][/\ C12_WrittenBy("minipools", um)
       /\ C12_WrittenBy("nodes", un)
       /\ C12_WrittenBy("proposals", up)
       /\ (MinipoolsByAddress' # MinipoolsByAddress) => un' = un /\ up' = up
       /\ (NodesByAddress' # NodesByAddress) => um' = um /\ mu' = mu /\ up' = up
       /\ (ProposalsByID' # ProposalsByID) => um' = um /\ mu' = mu /\ un' = un
       /\ (sv' # sv /\ sv'.kind # nil) =>
             /\ TaskOf(sv'.kind).pc = "idle"
             /\ sv'.kind = "minipools" => mu.pc = "idle"
             /\ tasks' = tasks
             /\ caches' = caches
    ]_vars
\* The minipool synchronizer has written its cache while the other two
\* synchronizers are still running.
C12_Witness ==
    /\ pc = "Update" /\ DOMAIN hist.wrote["minipools"] # {}
    /\ un.pc = "loop" /\ up.pc = "loop"

\* C13: when Update or a SaveX returns an error inside Run, Run goes to its
\* sleep; the sleep lasts exactly RetryDelay seconds, takes no tick out of t.C
\* and waits for none; after it the cycle restarts with Update; no failure
\* inside Run is fatal.
C13_PromptRetry ==
    [][/\ (pc = "Update" /\ pc' # "Update" /\ wg.err # nil) => pc' = "Sleep"
       /\ (SaveInProgress /\ sv'.err # nil) => pc' = "Sleep"
       /\ pc = "Sleep" =>
             /\ pc' = "Run"
             /\ clk'.sinceT0 = Min2(UpdateInterval, clk.sinceT0 + RetryDelay)
             /\ clk'.untilTick = IF clk.untilTick > RetryDelay
                                 THEN clk.untilTick - RetryDelay
                                 ELSE clk.untilTick - RetryDelay + UpdateInterval
             /\ clk'.buffered = (clk.buffered \/ clk.untilTick <= RetryDelay)
       /\ pc = "Run" => pc' = "Update"
       /\ pc' = "fatal" => pc = "rocketpoolExporter"
    ]_vars
\* Two failures in a row have been retried: four seconds after the ticker was
\* made the third attempt is about to start and no tick has been taken.
C13_Witness ==
    /\ pc = "Run" /\ clk.sleeps = 2
    /\ clk.untilTick = UpdateInterval - 2 * RetryDelay
    /\ ~clk.buffered

\* C14: when a successful cycle took less than one interval, the wait for the
\* tick ends no earlier than one full interval after that cycle's start.
C14_CadenceFromCycleStart ==
    [][(pc = "Tick" /\ pc' = "Run" /\ clk.sinceT0 < UpdateInterval)
          => clk'.sinceT0 >= UpdateInterval
    ]_vars

\* C15: once Run is entered the main goroutine is always at a point of Run's
\* loop (Run has not returned), from every such point the top of the loop is
\* reached again, and from the top of the loop the next cycle starts.
InRun == pc \notin {"rocketpoolExporter", "fatal"}
RunPoints ==
    {"Run", "Update", "Sleep", "Tick", "SaveMinipools", "SaveNodes", "SaveProposals",
     "Exec"}
CycleStarted ==
    pc = "Update" /\ um.pc = "start" /\ un.pc = "start" /\ up.pc = "start"
C15_NoTerminalState ==
    /\ [](InRun => pc \in RunPoints)
    /\ (InRun /\ pc # "Run") ~> (pc = "Run")
    /\ (pc = "Run") ~> CycleStarted
\* A cycle other than the first has started after a cycle that failed.
C15_Witness == CycleStarted /\ ~hist.firstCycle /\ clk.sleeps = 0 /\ sv.kind = nil

\* Durable storage holds, for every entry of the cache of kind, the row of that
\* entity with every column equal to the cached value.
Stored(kind) ==
    \A k \in DOMAIN CacheOf(kind) :
        LET r == RowOf(kind, CacheOf(kind)[k])
        IN  /\ PrimaryKey(kind, r) \in DOMAIN db[kind]
            /\ db[kind][PrimaryKey(kind, r)] = r

\* C16: when a cycle has completed (Update and Save returned nil, Run waits
\* for the tick), durable storage holds for every entity of the three caches a
\* row with the cached values, whatever cycles were aborted before.
C16_NothingLostAfterCycle ==
    pc = "Tick" => \A kind \in Kinds : Stored(kind)

\* C17: when a SaveX of a non-empty cache has returned nil, durable storage
\* holds for every entity of that cache the row keyed by (storage address,
\* identifier) with every non-key column equal to the cached value.
C17_UpsertWritesCache ==
    (pc = "api" /\ sv.kind # nil /\ sv.err = nil /\ sv.n > 0) => Stored(sv.kind)

\* C18: when SaveMinipools or SaveNodes has returned nil, every row that was
\* stored before the call still holds its immutable columns as they were.
ImmutableColumns(kind) ==
    IF kind = "minipools" THEN {"pubkey", "node_address", "node_fee", "deposit_type"}
    ELSE {"timezone_location"}
C18_ImmutableColumnsKept ==
    (pc = "api" /\ sv.kind \in {"minipools", "nodes"} /\ sv.err = nil) =>
        \A k \in DOMAIN sv.before :
            /\ k \in DOMAIN db[sv.kind]
            /\ \A c \in ImmutableColumns(sv.kind) :
                  db[sv.kind][k][c] = sv.before[k][c]

\* C19: when a SaveX that returned nil is followed at once by a second SaveX
\* of the same kind that returns nil, durable storage is after the second as
\* it was after the first.
C19_SaveIdempotent ==
    (pc = "api" /\ hist.again /\ sv.kind # nil /\ sv.err = nil) =>
        db[sv.kind] = sv.before

\* C20: on storage that was empty at the start, when UpdateProposals has
\* returned nil with the chain's count n (3, later 5) and the SaveProposals
\* after it has returned nil, durable storage holds exactly one row for each
\* id 1..n and no other row, and row k holds what the chain reports for
\* proposal k (so rows 1..3 are after the second cycle what they were after
\* the first).
ProposalRowOnChain(k) ==
    ProposalRow(NewRocketpoolProposal(k,
        Ok(CHOOSE pd \in ProposalDetailsOf(k, env.stateVals) : TRUE)).this)
C20_ProposalGrowth ==
    (pc = "api" /\ hist.updated /\ sv.kind = "proposals" /\ sv.err = nil) =>
        /\ DOMAIN db["proposals"] =
               {<<StorageAddress, k>> : k \in 1..chain.proposalCount}
        /\ \A k \in 1..chain.proposalCount :
               db["proposals"][<<StorageAddress, k>>] = ProposalRowOnChain(k)
\* The second cycle (count 5) has been saved on top of the rows 1..3 of the
\* first.
C20_Witness ==
    /\ pc = "api" /\ hist.updated /\ sv.kind = "proposals" /\ sv.err = nil
    /\ chain.proposalCount = 5
    /\ DOMAIN sv.before = {<<StorageAddress, k>> : k \in 1..3}
    /\ sv.committed = 1

\* The errors each synchronizer can return.
TaskErrors(kind) ==
    CASE kind = "minipools" ->
            {"GetMinipoolAddresses", "NewMinipool", "GetMinipoolPubkey", "GetNodeAddress",
             "GetNodeFee", "GetDepositType", "GetStatus", "GetStatusTime"}
      [] kind = "nodes" ->
            {"GetNodeAddresses", "GetNodeTimezoneLocation", "GetNodeRPLStake",
             "GetNodeMinimumRPLStake", "GetNodeMaximumRPLStake"}
      [] OTHER -> {"GetProposalCount", "GetProposalDetails"}
\* The step in which the synchronizer of kind returns an error: the group's
\* error becomes that error if the group had none and stays what it was
\* otherwise, and the step touches no other synchronizer.
C21_TaskFails(kind, frame, frameNext, othersUnchanged) ==
    (pc = "Update" /\ frame.pc # "done" /\ frameNext.pc = "done" /\ frameNext.err # nil)
    => /\ IF wg.err = nil THEN wg'.err \in TaskErrors(kind) ELSE wg'.err = wg.err
       /\ othersUnchanged
       /\ pc' = "Update"

\* C21: inside Update a synchronizer that fails stops no other: the step in
\* which it fails leaves the other two as they are, Update returns only when
\* all three have ended, what the synchronizers wrote in the cycle is in the
\* caches when Update returns, and the error Update returns is the error of the
\* synchronizer that failed first (the later failures do not replace it).
C21_FirstErrorNoCancel ==
    /\ [][/\ C21_TaskFails("minipools", um, um', un' = un /\ up' = up)
          /\ C21_TaskFails("nodes", un, un', um' = um /\ mu' = mu /\ up' = up)
          /\ C21_TaskFails("proposals", up, up', um' = um /\ mu' = mu /\ un' = un)
          /\ (pc = "Update" /\ pc' # "Update") =>
                /\ um.pc = "done" /\ un.pc = "done" /\ up.pc = "done"
                /\ wg' = wg
                /\ (wg.err # nil) <=> (pc' = "Sleep")
                /\ \A kind \in Kinds : \A k \in DOMAIN hist.wrote[kind] :
                      /\ k \in DOMAIN CacheOf(kind)'
                      /\ CacheOf(kind)'[k] = hist.wrote[kind][k]
         ]_vars
    /\ [](pc = "Update" =>
            (wg.err = nil) <=> (um.err = nil /\ un.err = nil /\ up.err = nil))
\* The node synchronizer failed first, the proposal synchronizer failed after
\* it, and the minipool synchronizer is still at work on its reads.
C21_Witness ==
    /\ pc = "Update" /\ wg.err \in TaskErrors("nodes")
    /\ un.pc = "done" /\ up.pc = "done" /\ up.err # nil
    /\ um.pc = "Update" /\ mu.getStatus = "running"

\* The step in which a call of UpdateX meets its first error: the call
\* returns, and the step changes no cache.
C22_FailingStep(frame, frameNext) ==
    (pc = "api.Update" /\ frame.err = nil /\ frameNext.err # nil)
    => frameNext.pc = "done" /\ frameNext.i = frame.i /\ caches' = caches
\* After the error no read is issued and no cache is written until the caller
\* has the error.
C22_NoWorkAfter(frame, frameNext) ==
    (pc = "api.Update" /\ frame.err # nil)
    => /\ caches' = caches /\ mu' = mu
       /\ frameNext = IdleTask
       /\ pc' = "api" /\ ~hist'.updated
\* The call of UpdateMinipools / UpdateNodes failed on the k-th address of its
\* list (k = frame.i): the addresses before it have their entries, the k-th has
\* none unless it had one before the call.
C22_AddressesBefore(kind, frame, cache) ==
    (pc = "api.Update" /\ env.focus = kind /\ frame.err # nil /\ frame.i >= 1)
    => /\ frame.pc = "done"
       /\ \A j \in 1..(frame.i - 1) :
             Hex(frame.list[j]) \in DOMAIN cache
                /\ cache[Hex(frame.list[j])].Address = frame.list[j]
       /\ Hex(frame.list[frame.i]) \notin hist.keys0
             => Hex(frame.list[frame.i]) \notin DOMAIN cache

\* C22: a call of UpdateMinipools, UpdateNodes or UpdateProposals whose read
\* for the k-th identifier fails returns that error to its caller; the failing
\* step and everything after it change no cache and issue no read; the
\* identifiers before the k-th keep their entries; the k-th has no entry
\* unless it had one before the call.
C22_ReadFailureAborts ==
    /\ [][/\ C22_FailingStep(um, um') /\ C22_NoWorkAfter(um, um')
          /\ C22_FailingStep(un, un') /\ C22_NoWorkAfter(un, un')
          /\ C22_FailingStep(up, up') /\ C22_NoWorkAfter(up, up')
         ]_vars
    /\ [](/\ C22_AddressesBefore("minipools", um, MinipoolsByAddress)
          /\ C22_AddressesBefore("nodes", un, NodesByAddress)
          /\ (pc = "api.Update" /\ up.err # nil /\ Len(up.list) = 1) =>
                /\ up.pc = "done"
                /\ \A j \in 0..(up.i - 1) :
                      UpdateProposals_Key(j) \in DOMAIN ProposalsByID
                         /\ ProposalsByID[UpdateProposals_Key(j)].ID = UpdateProposals_ID(j)
                /\ UpdateProposals_Key(up.i) \notin hist.keys0
                      => UpdateProposals_Key(up.i) \notin DOMAIN ProposalsByID)
\* UpdateMinipools stored a first minipool that was new and failed on a read of
\* the second, which was new as well.
C22_Witness ==
    /\ env.focus = "minipools" /\ pc = "api.Update" /\ um.pc = "done"
    /\ um.err = "GetStatusTime" /\ um.i = 2
    /\ Hex(um.list[1]) \notin hist.keys0 /\ Hex(um.list[2]) \notin hist.keys0
    /\ Hex(um.list[1]) \in DOMAIN MinipoolsByAddress

\* The identifiers of the entities a cache holds.
Identities(kind, cache) == {Identity(kind, cache[k]) : k \in DOMAIN cache}
\* A step of a call of UpdateX or SaveX keeps every key of the cache of kind
\* and every identifier it holds.
C23_Kept(kind) ==
    /\ DOMAIN CacheOf(kind) \subseteq DOMAIN CacheOf(kind)'
    /\ Identities(kind, CacheOf(kind)) \subseteq Identities(kind, CacheOf(kind)')

\* C23: no step of an UpdateX or a SaveX, successful or failed, removes a key
\* or an identifier from a cache, and an entry of the minipool or node cache
\* that a step of UpdateX changes is filed under an address of the chain's
\* current list (an entity that is no longer listed keeps its last values).
C23_NeverRemoved ==
    [][(pc # "api" \/ pc' # "api") =>
          /\ \A kind \in Kinds : C23_Kept(kind)
          /\ \A k \in DOMAIN MinipoolsByAddress :
                MinipoolsByAddress'[k] # MinipoolsByAddress[k]
                   => \E j \in 1..Len(um.list) : k = Hex(um.list[j])
          /\ \A k \in DOMAIN NodesByAddress :
                NodesByAddress'[k] # NodesByAddress[k]
                   => \E j \in 1..Len(un.list) : k = Hex(un.list[j])
          /\ \A k \in DOMAIN ProposalsByID :
                ProposalsByID'[k] # ProposalsByID[k]
                   => Len(up.list) = 1 /\ k < up.list[1]
    ]_vars
\* UpdateNodes has returned nil on a list that no longer holds an address whose
\* entry an earlier UpdateNodes had stored.
C23_Witness ==
    /\ env.focus = "nodes" /\ pc = "api.Update" /\ un.pc = "done" /\ un.err = nil
    /\ \E a \in Addrs :
          /\ Hex(a) \in hist.keys0
          /\ a \notin ListSet(un.list)
          /\ Hex(a) \in DOMAIN NodesByAddress

\* C24: a successful InitX on an empty cache leaves one entry per row of the
\* table, and every row of the table is carried, with its identifier and all
\* its values, by an entry of the cache.
C24_SeedingLoadsEveryRow ==
    [][(pc = "api" /\ pc' = "api" /\ DOMAIN CacheOf(env.focus) = {}
            /\ DOMAIN CacheOf(env.focus)' # {})
          => /\ Cardinality(DOMAIN CacheOf(env.focus)')
                   = Cardinality(DOMAIN db[env.focus])
             /\ \A k \in DOMAIN db[env.focus] :
                   \E key \in DOMAIN CacheOf(env.focus)' :
                       CacheOf(env.focus)'[key] = StructOfRow(env.focus, db[env.focus][k])
    ]_vars

\* C25: a SaveX called while the cache of its kind is empty returns nil in one
\* step: it begins no transaction, executes no statement, and durable storage
\* is as before.
C25_EmptyCacheNoOp ==
    [][\A kind \in Kinds :
          (pc = SavePC(kind) /\ DOMAIN CacheOf(kind) = {})
          => /\ pc' = "api"
             /\ sv'.kind = kind /\ sv'.err = nil
             /\ sv'.begun = 0 /\ sv'.stmts = <<>> /\ sv'.committed = 0
             /\ db' = db
    ]_vars
\* SaveNodes has returned from an empty cache while the table holds rows.
C25_Witness ==
    /\ pc = "api" /\ sv.kind = "nodes" /\ sv.err = nil /\ sv.begun = 0
    /\ DOMAIN NodesByAddress = {}
    /\ DOMAIN db["nodes"] # {}

\* The number of parameters a row of each kind takes.
C26_Arity(kind) ==
    CASE kind = "minipools" -> 8
      [] kind = "nodes" -> 6
      [] OTHER -> 18
\* How often row r occurs in the statements executed.
C26_TimesWritten(r) ==
    Cardinality({<<st, i>> \in (1..Len(sv.stmts)) \X (1..env.batchSize) :
                    i <= Len(sv.stmts[st]) /\ sv.stmts[st][i] = r})

\* C26: with batch size B, every statement of a SaveX carries between 1 and B
\* rows and only the last statement of the Save carries fewer than B; its
\* placeholders are numbered 1..rows*arity row by row, exactly rows*arity
\* arguments are bound and the first argument of every row is the scope
\* identifier; and when the SaveX has returned nil the rows of its statements
\* are the entries of the cache, each written once.
C26_BatchesPartitionCache ==
    sv.kind # nil =>
        LET B == env.batchSize
            a == C26_Arity(sv.kind)
        IN  /\ Len(sv.sql) = Len(sv.stmts) + (IF sv.err = "Exec" THEN 1 ELSE 0)
            /\ \A st \in 1..Len(sv.sql) :
                  LET q == sv.sql[st]
                      rows == Len(q.valueStrings)
                  IN  /\ rows >= 1 /\ rows <= B
                      /\ st <= Len(sv.stmts) => rows = Len(sv.stmts[st])
                      /\ rows < B => st = Len(sv.sql) /\ (st - 1) * B + rows = sv.n
                      /\ \A i \in 1..rows :
                            /\ Len(q.valueStrings[i]) = a
                            /\ \A j \in 1..a : q.valueStrings[i][j] = (i - 1) * a + j
                            /\ q.valueArgs[(i - 1) * a + 1] = StorageAddress
                      /\ Len(q.valueArgs) = rows * a
            /\ (pc = "api" /\ sv.err = nil /\ sv.n > 0) =>
                  /\ sv.n = Cardinality(DOMAIN CacheOf(sv.kind))
                  /\ Len(sv.stmts) = Ceil(sv.n, B)
                  /\ \A k \in DOMAIN CacheOf(sv.kind) :
                        LET r == RowOf(sv.kind, CacheOf(sv.kind)[k])
                        IN  C26_TimesWritten(r) =
                               Cardinality({k2 \in DOMAIN CacheOf(sv.kind) :
                                               RowOf(sv.kind, CacheOf(sv.kind)[k2]) = r})
\* A SaveX of three entries with batch size 2 has returned nil: a statement of
\* two rows and a last statement of one.
C26_Witness ==
    /\ pc = "api" /\ sv.kind # nil /\ sv.err = nil /\ sv.committed = 1
    /\ env.batchSize = 2 /\ sv.n = 3
    /\ Len(sv.sql) = 2
    /\ Len(sv.sql[1].valueStrings) = 2 /\ Len(sv.sql[2].valueStrings) = 1

\* A mutable-attribute read of a minipool is outstanding.
C27_ReadOutstanding(m) == m.getStatus = "running" \/ m.getStatusTime = "running"

\* C27: while a read of GetStatus or GetStatusTime is outstanding,
\* UpdateMinipools is inside the Update of the minipool its loop is at and the
\* outstanding reads are reads of that minipool; the two reads of a minipool
\* are issued together; and the loop leaves that Update, moves to the next
\* address or issues the next reads only when both reads have returned.
C27_SequentialEntitiesParallelReads ==
    /\ [](C27_ReadOutstanding(mu) =>
            /\ um.pc = "Update"
            /\ um.i >= 1 /\ um.i <= Len(um.list)
            /\ mu.key = Hex(um.list[um.i])
            /\ mu.this.Address = um.list[um.i])
    /\ [][/\ (mu.pc # "wait" /\ mu'.pc = "wait") =>
                /\ ~C27_ReadOutstanding(mu)
                /\ mu'.getStatus = "running" /\ mu'.getStatusTime = "running"
          /\ (um'.i # um.i \/ (um.pc = "Update" /\ um'.pc # "Update")) =>
                /\ ~C27_ReadOutstanding(mu)
                /\ ~C27_ReadOutstanding(mu')
          /\ (um.pc = "Update" /\ um'.pc # "Update") =>
                mu.getStatus = "done" /\ mu.getStatusTime = "done"
         ]_vars
\* Both reads of the second minipool of the list are outstanding, the first
\* minipool has been refreshed.
C27_Witness ==
    /\ env.focus = "minipools" /\ um.pc = "Update" /\ um.i = 2
    /\ mu.getStatus = "running" /\ mu.getStatusTime = "running"
    /\ Hex(um.list[1]) \in DOMAIN MinipoolsByAddress

\* The kinds Save has called SaveX for when it is at, or inside, the SaveX of
\* kind.
C28_CalledBefore(kind) ==
    CASE kind = "minipools" -> {}
      [] kind = "nodes" -> {"minipools"}
      [] OTHER -> {"minipools", "nodes"}

\* C28: in a cycle Save calls SaveMinipools, SaveNodes, SaveProposals in that
\* order, each after the one before has returned nil.  When a SaveX returns an
\* error Run sleeps and restarts the cycle with Update (all three
\* synchronizers) without another SaveX; the table of the failing kind is what
\* it was before that SaveX; no step but the commit of a SaveX changes durable
\* storage, and a commit changes the table of its own kind only, so the tables
\* committed earlier in the cycle stay as committed and the kinds after the
\* failing one are not written.
C28_SaveOrderStopsAtFirstFailure ==
    /\ [](/\ \A kind \in Kinds :
                pc = SavePC(kind) => hist.saves = C28_CalledBefore(kind)
          /\ pc = "Exec" => hist.saves = C28_CalledBefore(sv.kind) \cup {sv.kind}
          /\ (pc = "Sleep" /\ sv.err # nil) =>
                /\ hist.saves = C28_CalledBefore(sv.kind) \cup {sv.kind}
                /\ db[sv.kind] = sv.before
                /\ sv.committed = 0)
    /\ [][/\ (SaveInProgress /\ sv'.err # nil) => pc' = "Sleep" /\ db' = db
          /\ (SaveInProgress /\ pc' \in {"SaveNodes", "SaveProposals", "Tick"}) =>
                sv'.err = nil
          /\ pc = "Sleep" => pc' = "Run" /\ db' = db
          /\ pc = "Run" =>
                /\ pc' = "Update" /\ db' = db
                /\ um'.pc = "start" /\ un'.pc = "start" /\ up'.pc = "start"
          /\ db' # db =>
                /\ pc = "Exec" /\ sv'.committed = 1 /\ sv'.err = nil
                /\ \A kind \in Kinds \ {sv.kind} : db'[kind] = db[kind]
         ]_vars
\* SaveNodes has failed after SaveMinipools had committed rows to a table that
\* was empty when the process started; nothing of the nodes and the proposals
\* is stored.
C28_Witness ==
    /\ pc = "Sleep" /\ sv.kind = "nodes" /\ sv.err # nil
    /\ DOMAIN db["minipools"] # {}
    /\ DOMAIN db["nodes"] = {} /\ DOMAIN db["proposals"] = {}
    /\ DOMAIN NodesByAddress # {} /\ DOMAIN ProposalsByID # {}

====
